---- MODULE Spec2Model ----
(***************************************************************************)
(* Model of the portless reverse proxy (packages/deamon/src/proxy.ts):     *)
(* useReverseProxy, its per-redirect listeners (proxyTarget), the response *)
(* wrappers that rewrite hostnames, the ACME challenge responder, the      *)
(* WebSocket upgrade handler and the transport error handler.              *)
(*                                                                         *)
(* Text (bodies, header values, URLs, hostnames) is a sequence of          *)
(* one-character strings, so that substring search and substitution are    *)
(* computed character by character as String.prototype.replace does.       *)
(***************************************************************************)
EXTENDS Integers, Sequences, FiniteSets, TLC

\* ------------------------------------------------------------------------
\* Bounds of the model
\* ------------------------------------------------------------------------
MaxChunks ==
  2
MaxCallbacks ==
  2

\* ------------------------------------------------------------------------
\* Literal texts
\* ------------------------------------------------------------------------
acmeChallengePath ==
  <<"/",".","w","e","l","l","-","k","n","o","w","n","/","a","c","m","e","-","c","h","a","l","l","e","n","g","e","/">>
Undefined ==
  <<"u","n","d","e","f","i","n","e","d">>
SchemeSep ==
  <<":","/","/">>
TextHtml ==
  <<"t","e","x","t","/","h","t","m","l">>
TextCss ==
  <<"t","e","x","t","/","c","s","s">>
AppJavascript ==
  <<"a","p","p","l","i","c","a","t","i","o","n","/","j","a","v","a","s","c","r","i","p","t">>
HtmlUtf8 ==
  <<"t","e","x","t","/","h","t","m","l",";"," ","c","h","a","r","s","e","t","=","u","t","f","-","8">>
OctetStream ==
  <<"a","p","p","l","i","c","a","t","i","o","n","/","o","c","t","e","t","-","s","t","r","e","a","m">>
EnotfoundPrefix ==
  <<"g","e","t","a","d","d","r","i","n","f","o"," ","E","N","O","T","F","O","U","N","D">>
MsgRefused ==
  <<"c","o","n","n","e","c","t"," ","E","C","O","N","N","R","E","F","U","S","E","D">>
MsgNotFound ==
  <<"g","e","t","a","d","d","r","i","n","f","o"," ","E","N","O","T","F","O","U","N","D"," ","n","o","h","o","s","t">>
CantFindOpen ==
  <<"C","a","n","'","t"," ","f","i","n","d"," ","h","o","s","t"," ","<","b",">">>
CantFindClose ==
  <<"<","/","b",">">>
StackTrace ==
  <<"a","t"," ","T","C","P">>
UrlT1 ==
  <<"h","t","t","p",":","/","/","l","o","c","a","l","h","o","s","t",":","3","0","0","0">>
UrlP1 ==
  <<"h","t","t","p","s",":","/","/","a","p","p",".","e","x","a","m","p","l","e">>
UrlT2 ==
  <<"h","t","t","p",":","/","/","l","o","c","a","l","h","o","s","t",":","4","0","0","0">>
UrlP2 ==
  <<"h","t","t","p","s",":","/","/","a","p","i",".","e","x","a","m","p","l","e">>
KeyId ==
  <<"k","i","d","4","2">>
PathRoot ==
  <<"/">>
PathChallenge ==
  <<"/",".","w","e","l","l","-","k","n","o","w","n","/","a","c","m","e","-","c","h","a","l","l","e","n","g","e","/","a","b","c","1","2","3">>
PathNested ==
  <<"/","x","/",".","w","e","l","l","-","k","n","o","w","n","/","a","c","m","e","-","c","h","a","l","l","e","n","g","e","/","a","b","c","1","2","3">>
ChunkPlain ==
  <<"a","b">>
ChunkHost ==
  <<"/","/","l","o","c","a","l","h","o","s","t",":","3","0","0","0","/">>
CorsT1 ==
  <<"h","t","t","p",":","/","/","l","o","c","a","l","h","o","s","t",":","3","0","0","0">>
HostPublic ==
  <<"a","p","p",".","e","x","a","m","p","l","e">>
HostOther ==
  <<"o","t","h","e","r",".","t","e","s","t">>
OriginPublic ==
  <<"h","t","t","p",":","/","/","a","p","p",".","e","x","a","m","p","l","e">>
OriginPublic2 ==
  <<"h","t","t","p","s",":","/","/","a","p","i",".","e","x","a","m","p","l","e">>
\* Expected texts of the properties
ChallengeAnswer ==
  <<"a","b","c","1","2","3",".","k","i","d","4","2">>
CorsP1 ==
  <<"h","t","t","p",":","/","/","a","p","p",".","e","x","a","m","p","l","e">>
ChunkHref ==
  <<"h","r","e","f","=","\"","h","t","t","p",":","/","/","l","o","c","a","l","h","o","s","t",":","3","0","0","0","/","x","\"">>
ChunkHrefPublic ==
  <<"h","r","e","f","=","\"","h","t","t","p","s",":","/","/","a","p","p",".","e","x","a","m","p","l","e","/","x","\"">>
ChunkHrefHost ==
  <<"h","r","e","f","=","\"","h","t","t","p",":","/","/","a","p","p",".","e","x","a","m","p","l","e","/","x","\"">>
ChunkHead ==
  <<"/","/","l","o","c","a","l">>
ChunkTail ==
  <<"h","o","s","t",":","3","0","0","0","/">>
ChunkHostPublic ==
  <<"/","/","a","p","p",".","e","x","a","m","p","l","e","/">>
TextBoth ==
  <<"l","o","c","a","l","h","o","s","t",":","3","0","0","0",",","l","o","c","a","l","h","o","s","t",":","4","0","0","0">>
TextMixed ==
  <<"l","o","c","a","l","h","o","s","t",":","3","0","0","0",",","a","p","p",".","e","x","a","m","p","l","e">>
Len5 ==
  <<"5">>

\* The value JavaScript calls undefined, for optional texts (publicUrl,
\* publicKeyId, a header that is not there).  It is no text of the model.
NoValue ==
  <<"#undefined">>

Truthy(v) ==
  v # NoValue /\ v # <<>>

\* ------------------------------------------------------------------------
\* String helpers (JavaScript String methods, computed on character
\* sequences)
\* ------------------------------------------------------------------------
MatchAt(text, i, sub) ==
  /\ i + Len(sub) - 1 <= Len(text)
  /\ SubSeq(text, i, i + Len(sub) - 1) = sub

StartsWith(text, prefix) ==
  MatchAt(text, 1, prefix)

Includes(text, sub) ==
  \E i \in 1..(Len(text) + 1) : MatchAt(text, i, sub)

\* text.substr(n): the text from (0-based) position n on
Substr(text, n) ==
  SubSeq(text, n + 1, Len(text))

\* 1-based position of the first occurrence of sub in text, 0 if none
IndexOf(text, sub) ==
  IF Includes(text, sub)
  THEN CHOOSE i \in 1..(Len(text) + 1) :
         /\ MatchAt(text, i, sub)
         /\ \A j \in 1..(i - 1) : ~MatchAt(text, j, sub)
  ELSE 0

\* text.replace(search, by) with a string search value: first occurrence only
ReplaceFirst(text, search, by) ==
  LET p == IndexOf(text, search)
  IN IF p = 0 THEN text
     ELSE SubSeq(text, 1, p - 1) \o by \o Substr(text, p - 1 + Len(search))

\* hostname[:port] of a URL: what follows "://", up to the next "/"
getDomain(url) ==
  LET p    == IndexOf(url, SchemeSep)
      rest == IF p = 0 THEN url ELSE Substr(url, p - 1 + Len(SchemeSep))
      q    == IndexOf(rest, <<"/">>)
  IN IF q = 0 THEN rest ELSE SubSeq(rest, 1, q - 1)

\* ------------------------------------------------------------------------
\* Finite maps (JavaScript objects used as dictionaries)
\* ------------------------------------------------------------------------
EmptyMap ==
  [k \in {} |-> <<>>]

Put(m, k, v) ==
  [x \in (DOMAIN m) \cup {k} |-> IF x = k THEN v ELSE m[x]]

Remove(m, k) ==
  [x \in (DOMAIN m) \ {k} |-> m[x]]

Get(m, k) ==
  IF k \in DOMAIN m THEN m[k] ELSE NoValue

\* ------------------------------------------------------------------------
\* The substitution tables built by proxyTarget from config.domains
\* ------------------------------------------------------------------------
RECURSIVE replaceMapUpTo(_, _)
replaceMapUpTo(domains, n) ==
  IF n = 0 THEN EmptyMap
  ELSE LET m == replaceMapUpTo(domains, n - 1)
           d == domains[n]
       IN IF Truthy(d.publicUrl)
          THEN Put(m, getDomain(d.targetUrl), getDomain(d.publicUrl))
          ELSE m

replaceMap(domains) ==
  replaceMapUpTo(domains, Len(domains))

RECURSIVE reverseReplaceMapUpTo(_, _)
reverseReplaceMapUpTo(domains, n) ==
  IF n = 0 THEN EmptyMap
  ELSE LET m == reverseReplaceMapUpTo(domains, n - 1)
           d == domains[n]
       IN IF Truthy(d.publicUrl)
          THEN Put(m, getDomain(d.publicUrl), getDomain(d.targetUrl))
          ELSE m

\* Variant: the reverse table is filled like the forward table
reverseReplaceMapByTarget(domains) ==
  replaceMapUpTo(domains, Len(domains))

reverseReplaceMap(domains) ==
  reverseReplaceMapUpTo(domains, Len(domains))

\* The alternatives of the pattern, in configuration order.  escapeReg makes
\* every alternative match its hostname literally.
RECURSIVE escapedUrls(_)
escapedUrls(domains) ==
  IF domains = <<>> THEN <<>>
  ELSE LET d == domains[Len(domains)]
           front == escapedUrls(SubSeq(domains, 1, Len(domains) - 1))
       IN IF Truthy(d.publicUrl)
          THEN Append(front, getDomain(d.targetUrl))
          ELSE front

RECURSIVE reverseEcapedUrls(_)
reverseEcapedUrls(domains) ==
  IF domains = <<>> THEN <<>>
  ELSE LET d == domains[Len(domains)]
           front == reverseEcapedUrls(SubSeq(domains, 1, Len(domains) - 1))
       IN IF Truthy(d.publicUrl)
          THEN Append(front, getDomain(d.publicUrl))
          ELSE front

\* replaceReg with replaceFunc; both stay undefined when config.domains is
\* not set.
replaceReg(cfg) ==
  [defined |-> cfg.hasDomains,
   alts    |-> IF cfg.hasDomains THEN escapedUrls(cfg.domains) ELSE <<>>,
   map     |-> IF cfg.hasDomains THEN replaceMap(cfg.domains) ELSE EmptyMap]

reverseReplaceReg(cfg) ==
  [defined |-> cfg.hasDomains,
   alts    |-> IF cfg.hasDomains THEN reverseEcapedUrls(cfg.domains) ELSE <<>>,
   map     |-> IF cfg.hasDomains THEN reverseReplaceMap(cfg.domains) ELSE EmptyMap]

\* Index of the first alternative that matches text at position i, 0 if none
FirstAlt(text, i, alts) ==
  IF \E k \in 1..Len(alts) : MatchAt(text, i, alts[k])
  THEN CHOOSE k \in 1..Len(alts) :
         /\ MatchAt(text, i, alts[k])
         /\ \A j \in 1..(k - 1) : ~MatchAt(text, i, alts[j])
  ELSE 0

\* replaceFunc = matched => replaceMap[matched]; replace converts the value
\* the function returns to a string, undefined to "undefined".
replaceFunc(map, matched) ==
  IF Truthy(Get(map, matched)) THEN map[matched] ELSE Undefined

\* text.replace(/(a1|a2|...)/g, m => map[m]): one pass from the left, the
\* first matching alternative wins, the scan resumes after the match.
RECURSIVE ReplaceAlts(_, _, _, _)
ReplaceAlts(text, i, alts, map) ==
  IF i > Len(text) THEN <<>>
  ELSE LET k == FirstAlt(text, i, alts)
       IN IF k = 0
          THEN <<text[i]>> \o ReplaceAlts(text, i + 1, alts, map)
          ELSE replaceFunc(map, alts[k]) \o ReplaceAlts(text, i + Len(alts[k]), alts, map)

\* text.replace(/()/g, m => map[m]): the empty group matches before every
\* character and at the end; map[''] is undefined, which replace inserts as
\* the text "undefined".
ReplaceEmptyGroup(text, i) ==
  LET n == Len(text) - i + 1
      u == Len(Undefined)
  IN [j \in 1..(n * (u + 1) + u) |->
        IF (j - 1) % (u + 1) < u
        THEN Undefined[((j - 1) % (u + 1)) + 1]
        ELSE text[i + ((j - 1) \div (u + 1))]]

\* text.replace(reg, func) for reg = replaceReg or reverseReplaceReg.  An
\* undefined reg and func are both converted to the string "undefined".
StringReplace(text, reg) ==
  IF ~reg.defined THEN ReplaceFirst(text, Undefined, Undefined)
  ELSE IF reg.alts = <<>> THEN ReplaceEmptyGroup(text, 1)
  ELSE ReplaceAlts(text, 1, reg.alts, reg.map)

\* ------------------------------------------------------------------------
\* Configurations and inputs
\* ------------------------------------------------------------------------
DomainT1Only ==
  [targetUrl |-> UrlT1, publicUrl |-> NoValue]
DomainT1 ==
  [targetUrl |-> UrlT1, publicUrl |-> UrlP1]
DomainT2 ==
  [targetUrl |-> UrlT2, publicUrl |-> UrlP2]

\* config.domains: not set, empty, target only, one pair, two pairs
DomainLists ==
  { [hasDomains |-> FALSE, domains |-> <<>>],
    [hasDomains |-> TRUE,  domains |-> <<>>],
    [hasDomains |-> TRUE,  domains |-> <<DomainT1Only>>],
    [hasDomains |-> TRUE,  domains |-> <<DomainT1>>],
    [hasDomains |-> TRUE,  domains |-> <<DomainT1, DomainT2>>] }

\* config.reverseProxy.redirects: two redirects on distinct ports
Redirects ==
  << [port |-> 8080, target |-> UrlT1], [port |-> 8081, target |-> UrlT2] >>

\* config.reverseProxy is either missing (reverseProxy FALSE) or holds the
\* redirects
Configs ==
  { [hasDomains |-> d.hasDomains, domains |-> d.domains, redirects |-> Redirects,
     reverseProxy |-> enabled] :
      d \in DomainLists, enabled \in BOOLEAN }

Options ==
  { [publicKeyId |-> k] : k \in {NoValue, KeyId} }

RequestUrls ==
  {PathRoot, PathChallenge, PathNested}

\* Responses of the target as the transport hands them over: the status code
\* and the headers it sets with res.setHeader before the body is piped.
NoHeaders ==
  EmptyMap
UpstreamResponses ==
  { [status |-> 200, headers |-> [n \in {"content-type", "content-length"} |->
                                   IF n = "content-type" THEN HtmlUtf8 ELSE Len5]],
    [status |-> 200, headers |-> [n \in {"content-type", "access-control-allow-origin"} |->
                                   IF n = "content-type" THEN AppJavascript ELSE CorsT1]],
    [status |-> 404, headers |-> [n \in {"content-type", "content-length", "access-control-allow-origin"} |->
                                   IF n = "content-type" THEN OctetStream
                                   ELSE IF n = "content-length" THEN Len5 ELSE CorsT1]],
    [status |-> 200, headers |-> [n \in {"access-control-allow-origin"} |-> CorsT1]] }

\* Arguments of a res.writeHead(statusCode[, headers]) call
NoArgs ==
  [status |-> 200, hasHeaders |-> FALSE, headers |-> NoHeaders]
WriteHeadArgs ==
  { NoArgs,
    [status |-> 200, hasHeaders |-> TRUE,  headers |-> [n \in {"content-type"} |-> TextCss]],
    [status |-> 200, hasHeaders |-> TRUE,  headers |-> [n \in {"content-length"} |-> Len5]],
    [status |-> 200, hasHeaders |-> TRUE,  headers |-> [n \in {"Content-Length"} |-> Len5]],
    [status |-> 200, hasHeaders |-> TRUE,  headers |-> [n \in {"access-control-allow-origin"} |-> CorsT1]] }

Chunks ==
  {ChunkPlain, ChunkHost}

ErrorMessages ==
  {MsgRefused, MsgNotFound}

UpgradeHosts ==
  {HostPublic, HostOther}

\* req.headers.origin of an upgrade: missing, one value, or a list
UpgradeOrigins ==
  { [kind |-> "none",   values |-> <<>>],
    [kind |-> "scalar", values |-> <<OriginPublic>>],
    [kind |-> "list",   values |-> <<OriginPublic, OriginPublic2>>] }

\* ------------------------------------------------------------------------
\* State
\* ------------------------------------------------------------------------
VARIABLES
  config,              \* the PortlessConfig passed to useReverseProxy
  options,             \* the ReverseProxyOptions
  startPc,             \* "loop" while useReverseProxy runs, then "returned" (the
                       \* handle) or "null" (reverse proxy disabled)
  servers,             \* the servers array, one record per created listener
  crash,               \* "no", or the uncaught exception that ended the process
  publicUrlCallbacks,  \* the registered callbacks, in registration order
  announced,           \* the callback invocations made so far, in order
  res,                 \* the HTTP response being handled (or the last one)
  ws,                  \* the WebSocket upgrade being handled (or the last one)
  roundTrip            \* a text, its forward rewrite and the reverse rewrite of that

vars ==
  <<config, options, startPc, servers, crash, publicUrlCallbacks, announced, res, ws,
    roundTrip>>

IdleRes ==
  [phase |-> "idle", server |-> 0, url |-> <<>>, wrapped |-> FALSE, handedOff |-> FALSE,
   shouldRewrite |-> FALSE, statusCode |-> 200, headers |-> NoHeaders,
   given |-> NoHeaders, args |-> NoArgs, headersSent |-> FALSE, sentStatus |-> 0, sentHeaders |-> NoHeaders,
   decisionAtSend |-> FALSE, chunksIn |-> <<>>, chunksOut |-> <<>>,
   error |-> FALSE, errorPage |-> <<>>]

IdleWs ==
  [phase |-> "idle", server |-> 0, hostIn |-> <<>>, originIn |-> [kind |-> "none", values |-> <<>>],
   hostOut |-> <<>>, originOut |-> [kind |-> "none", values |-> <<>>], error |-> FALSE]

IdleRoundTrip ==
  [step |-> "idle", text |-> <<>>, forward |-> <<>>, back |-> <<>>]

Init ==
  /\ config \in Configs
  /\ options \in Options
  /\ startPc = "loop"
  /\ servers = <<>>
  /\ crash = "no"
  /\ publicUrlCallbacks = <<>>
  /\ announced = <<>>
  /\ res = IdleRes
  /\ ws = IdleWs
  /\ roundTrip = IdleRoundTrip

\* ------------------------------------------------------------------------
\* useReverseProxy: startup loop, listeners, subscription
\* ------------------------------------------------------------------------
\* config.domains.find(d => d.targetUrl === target)
RECURSIVE findDomain(_, _, _)
findDomain(domains, target, i) ==
  IF i > Len(domains) THEN [found |-> FALSE, publicUrl |-> NoValue]
  ELSE IF domains[i].targetUrl = target
       THEN [found |-> TRUE, publicUrl |-> domains[i].publicUrl]
       ELSE findDomain(domains, target, i + 1)

\* Variant: the first domain configuration is taken, whatever its target
domainOfFirst(cfg, target) ==
  IF cfg.hasDomains /\ Len(cfg.domains) > 0
  THEN [found |-> TRUE, publicUrl |-> cfg.domains[1].publicUrl]
  ELSE [found |-> FALSE, publicUrl |-> NoValue]

domain(cfg, target) ==
  IF cfg.hasDomains THEN findDomain(cfg.domains, target, 1)
  ELSE [found |-> FALSE, publicUrl |-> NoValue]

proxyUrl(port) ==
  <<"0.0.0.0", port>>

\* One iteration of the startup loop: proxyTarget(redirect) builds the
\* server, calls server.listen (the bind completes later, as an event) and
\* pushes the server.
proxyTarget ==
  /\ crash = "no"
  /\ config.reverseProxy
  /\ startPc = "loop"
  /\ Len(servers) < Len(config.redirects)
  /\ LET redirect == config.redirects[Len(servers) + 1]
     IN servers' = Append(servers, [port |-> redirect.port, target |-> redirect.target,
                                    state |-> "binding", closeIssued |-> FALSE])
  /\ UNCHANGED <<roundTrip, config, options, startPc, crash, publicUrlCallbacks, announced, res, ws>>

\* The loop is over: useReverseProxy returns { onPublicUrl, destroy }
ReturnHandle ==
  /\ crash = "no"
  /\ config.reverseProxy
  /\ startPc = "loop"
  /\ Len(servers) = Len(config.redirects)
  /\ startPc' = "returned"
  /\ UNCHANGED <<roundTrip, config, options, servers, crash, publicUrlCallbacks, announced, res, ws>>

\* if (!config.reverseProxy) return null
ReturnNull ==
  /\ crash = "no"
  /\ ~config.reverseProxy
  /\ startPc = "loop"
  /\ startPc' = "null"
  /\ UNCHANGED <<roundTrip, config, options, servers, crash, publicUrlCallbacks, announced, res, ws>>

\* The caller calls onPublicUrl or destroy on the value it got: on null the
\* property access throws a TypeError in the caller.
CallOnNull ==
  /\ crash = "no"
  /\ startPc = "null"
  /\ crash' = "caller"
  /\ UNCHANGED <<roundTrip, config, options, startPc, servers, publicUrlCallbacks, announced, res, ws>>

\* The invocations made by publicUrlCallbacks.forEach(cb => cb(proxyUrl, publicUrl))
announcements(callbacks, port, publicUrl) ==
  [k \in 1..Len(callbacks) |-> [cb |-> callbacks[k], proxyUrl |-> proxyUrl(port), publicUrl |-> publicUrl]]

\* The callback of server.listen: the listener is bound
listening(i) ==
  /\ crash = "no"
  /\ servers[i].state = "binding"
  /\ servers' = [servers EXCEPT ![i].state = "listening"]
  /\ LET d == domain(config, servers[i].target)
     IN announced' = IF d.found /\ d.publicUrl # NoValue
                     THEN announced \o announcements(publicUrlCallbacks, servers[i].port, d.publicUrl)
                     ELSE announced
  /\ UNCHANGED <<roundTrip, config, options, startPc, crash, publicUrlCallbacks, res, ws>>

\* The bind fails (port unavailable): the server emits 'error'.  No 'error'
\* listener is registered on the server, so the event is thrown as an
\* uncaught exception and the process ends.
listenError(i) ==
  /\ crash = "no"
  /\ servers[i].state = "binding"
  /\ servers' = [servers EXCEPT ![i].state = "failed"]
  /\ crash' = "bind"
  /\ UNCHANGED <<roundTrip, config, options, startPc, publicUrlCallbacks, announced, res, ws>>

onPublicUrl(cb) ==
  /\ crash = "no"
  /\ startPc = "returned"
  /\ Len(publicUrlCallbacks) < MaxCallbacks
  /\ publicUrlCallbacks' = Append(publicUrlCallbacks, cb)
  /\ UNCHANGED <<roundTrip, config, options, startPc, servers, crash, announced, res, ws>>

\* destroy(): server.close() on every server of the array.  A bound server
\* stops listening.  A server whose bind is still pending has no handle to
\* close: close() does nothing to it and the pending listen goes on.
destroy ==
  /\ crash = "no"
  /\ startPc = "returned"
  /\ \E i \in 1..Len(servers) : ~servers[i].closeIssued
  /\ servers' = [i \in 1..Len(servers) |->
                   [servers[i] EXCEPT !.closeIssued = TRUE,
                                      !.state = IF @ = "listening" THEN "closed" ELSE @]]
  /\ UNCHANGED <<roundTrip, config, options, startPc, crash, publicUrlCallbacks, announced, res, ws>>

\* Startup and teardown alone: the loop, the bind events, the subscriptions
\* and destroy
NextStart ==
  \/ proxyTarget
  \/ ReturnHandle
  \/ ReturnNull
  \/ CallOnNull
  \/ \E i \in 1..Len(servers) : listening(i)
  \/ \E i \in 1..Len(servers) : listenError(i)
  \/ \E cb \in 1..MaxCallbacks : onPublicUrl(cb)
  \/ destroy

StartSpec ==
  Init /\ [][NextStart]_vars

\* ------------------------------------------------------------------------
\* The response object: header store and native methods of http.ServerResponse
\* ------------------------------------------------------------------------
\* Header names are case-insensitive on the response: setHeader, getHeader
\* and removeHeader work on the lower-cased name.
LowerName(n) ==
  CASE n = "Content-Length" -> "content-length"
    [] n = "ContentType"    -> "contenttype"
    [] OTHER                -> n

\* The headers of an object literal as they go on the wire next to the
\* headers already set on the response (the argument wins).
MergeHeaders(set, obj) ==
  LET names == (DOMAIN set) \cup { LowerName(n) : n \in DOMAIN obj }
  IN [m \in names |->
        IF \E n \in DOMAIN obj : LowerName(n) = m
        THEN obj[CHOOSE n \in DOMAIN obj : LowerName(n) = m]
        ELSE set[m]]

\* The native writeHead (_writeHead): throws when the headers were sent
\* already, else sends the status line and the merged headers.
NativeWriteHead(r, args) ==
  IF r.headersSent
  THEN [r |-> r, threw |-> TRUE]
  ELSE [r |-> [r EXCEPT !.headersSent = TRUE,
                        !.sentStatus = args.status,
                        !.sentHeaders = MergeHeaders(r.headers,
                                          IF args.hasHeaders THEN args.headers ELSE NoHeaders),
                        !.decisionAtSend = r.shouldRewrite],
        threw |-> FALSE]

RewriteTypes ==
  {TextHtml, TextCss, AppJavascript}

\* Variant: only markup is rewritten
shouldRewriteForMarkup(contentType) ==
  /\ Truthy(contentType)
  /\ Includes(contentType, TextHtml)

\* The decision of the writeHead wrapper
shouldRewriteFor(contentType) ==
  /\ Truthy(contentType)
  /\ \E type \in RewriteTypes : Includes(contentType, type)

\* headers['access-control-allow-origin'] of the argument, rewritten
corsOfArgument(headers, reg) ==
  IF Truthy(Get(headers, "access-control-allow-origin"))
  THEN [headers EXCEPT !["access-control-allow-origin"] = StringReplace(@, reg)]
  ELSE headers

\* The CORS header set on the response, rewritten
corsOfResponse(set, reg) ==
  IF Truthy(Get(set, "access-control-allow-origin"))
  THEN [set EXCEPT !["access-control-allow-origin"] = StringReplace(@, reg)]
  ELSE set

\* Variant: the CORS header is rewritten only when the body is
writeHeadWrapperCorsGated(r, args, reg) ==
  LET headers     == args.headers
      contentType == IF Truthy(Get(r.headers, "content-type"))
                     THEN r.headers["content-type"]
                     ELSE IF args.hasHeaders THEN Get(headers, "content-type") ELSE NoValue
      rewrite     == shouldRewriteFor(contentType)
      set1        == IF rewrite THEN Remove(r.headers, "content-length") ELSE r.headers
      headers1    == IF rewrite /\ args.hasHeaders THEN Remove(headers, "content-length") ELSE headers
      set2        == IF rewrite THEN corsOfResponse(set1, reg) ELSE set1
      headers2    == IF rewrite /\ args.hasHeaders THEN corsOfArgument(headers1, reg) ELSE headers1
  IN NativeWriteHead([r EXCEPT !.shouldRewrite = rewrite, !.headers = set2],
                     [args EXCEPT !.headers = headers2])

\* The res.writeHead wrapper installed by the request handler
writeHeadWrapper(r, args, reg) ==
  LET headers     == args.headers
      contentType == IF Truthy(Get(r.headers, "content-type"))
                     THEN r.headers["content-type"]
                     ELSE IF args.hasHeaders THEN Get(headers, "content-type") ELSE NoValue
      rewrite     == shouldRewriteFor(contentType)
      set1        == IF rewrite THEN Remove(r.headers, "content-length") ELSE r.headers
      headers1    == IF rewrite /\ args.hasHeaders THEN Remove(headers, "content-length") ELSE headers
      set2        == corsOfResponse(set1, reg)
      headers2    == IF args.hasHeaders THEN corsOfArgument(headers1, reg) ELSE headers1
  IN NativeWriteHead([r EXCEPT !.shouldRewrite = rewrite, !.headers = set2],
                     [args EXCEPT !.headers = headers2])

\* res.writeHead as the caller finds it on the response.  The arguments of
\* the call that sends the headers are kept in r.args as they were passed.
writeHead(r, args, reg) ==
  LET r0 == IF r.headersSent THEN r ELSE [r EXCEPT !.args = args]
  IN IF r.wrapped THEN writeHeadWrapper(r0, args, reg) ELSE NativeWriteHead(r0, args)

\* The native write (_write): sends the headers first if they were not sent
\* (the implicit header is this.writeHead(this.statusCode)), then the chunk.
NativeWrite(r, data, reg) ==
  LET r1 == IF r.headersSent THEN r
            ELSE writeHead(r, [status |-> r.statusCode, hasHeaders |-> FALSE,
                               headers |-> NoHeaders], reg).r
  IN [r1 EXCEPT !.chunksOut = Append(@, data)]

\* The res.write wrapper
writeWrapper(r, data, reg) ==
  IF r.shouldRewrite
  THEN NativeWrite(r, StringReplace(data, reg), reg)
  ELSE NativeWrite(r, data, reg)

write(r, data, reg) ==
  LET r1 == [r EXCEPT !.chunksIn = Append(@, data)]
  IN IF r.wrapped THEN writeWrapper(r1, data, reg) ELSE NativeWrite(r1, data, reg)

\* The native end (_end): sends the headers if needed, the last chunk if one
\* is given, and finishes the response.
NativeEnd(r, hasData, data, reg) ==
  LET r1 == IF hasData THEN NativeWrite(r, data, reg)
            ELSE IF r.headersSent THEN r
            ELSE writeHead(r, [status |-> r.statusCode, hasHeaders |-> FALSE,
                               headers |-> NoHeaders], reg).r
  IN [r1 EXCEPT !.phase = "ended"]

\* The res.end wrapper: res.end = () => { _end() }
endWrapper(r, reg) ==
  NativeEnd(r, FALSE, <<>>, reg)

end(r, hasData, data, reg) ==
  IF r.wrapped THEN endWrapper(r, reg) ELSE NativeEnd(r, hasData, data, reg)

\* ------------------------------------------------------------------------
\* The request handler of a listener
\* ------------------------------------------------------------------------
CanAccept(i) ==
  /\ crash = "no"
  /\ i \in 1..Len(servers)
  /\ servers[i].state = "listening"
  /\ res.phase # "open"
  /\ ws.phase # "open"

\* The body of the ACME answer: `${id}.${options.publicKeyId}`
challengeBody(url, publicKeyId) ==
  Substr(url, Len(acmeChallengePath)) \o <<".">> \o publicKeyId

\* Variant: the prefix is looked for anywhere in the path
isChallengeAnywhere(url, publicKeyId) ==
  Truthy(publicKeyId) /\ Truthy(url) /\ Includes(url, acmeChallengePath)

isChallenge(url, publicKeyId) ==
  Truthy(publicKeyId) /\ Truthy(url) /\ StartsWith(url, acmeChallengePath)

\* http.createServer((req, res) => ...): answer the challenge, or wrap the
\* response (when replaceReg is set) and hand the request to proxy.web
requestHandler(i, url) ==
  LET reg   == replaceReg(config)
      fresh == [IdleRes EXCEPT !.phase = "open", !.server = i, !.url = url]
  IN IF isChallenge(url, options.publicKeyId)
     THEN end(write(fresh, challengeBody(url, options.publicKeyId), reg), FALSE, <<>>, reg)
     ELSE [fresh EXCEPT !.wrapped = reg.defined, !.handedOff = TRUE]

HttpRequest(i, url) ==
  /\ CanAccept(i)
  /\ res' = requestHandler(i, url)
  /\ ws' = IdleWs
  /\ UNCHANGED <<roundTrip, config, options, startPc, servers, crash, publicUrlCallbacks, announced>>

\* ------------------------------------------------------------------------
\* What the transport does with the response it was handed
\* ------------------------------------------------------------------------
InFlight ==
  crash = "no" /\ res.phase = "open" /\ res.handedOff

\* The target answered: the transport copies status and headers onto res
ProxyResponse(up) ==
  /\ InFlight
  /\ ~res.headersSent
  /\ res.given = NoHeaders
  /\ res' = [res EXCEPT !.statusCode = up.status, !.headers = up.headers, !.given = up.headers]
  /\ UNCHANGED <<roundTrip, config, options, startPc, servers, crash, publicUrlCallbacks, announced, ws>>

\* An explicit res.writeHead(status, headers) before the body
CallWriteHead(args) ==
  /\ InFlight
  /\ ~res.headersSent
  /\ res' = writeHead(res, [args EXCEPT !.status = res.statusCode], replaceReg(config)).r
  /\ UNCHANGED <<roundTrip, config, options, startPc, servers, crash, publicUrlCallbacks, announced, ws>>

\* A body chunk is piped: res.write(data)
CallWrite(data) ==
  /\ InFlight
  /\ Len(res.chunksIn) < MaxChunks
  /\ res' = write(res, data, replaceReg(config))
  /\ UNCHANGED <<roundTrip, config, options, startPc, servers, crash, publicUrlCallbacks, announced, ws>>

\* The body is over: res.end()
CallEnd ==
  /\ InFlight
  /\ res' = end(res, FALSE, <<>>, replaceReg(config))
  /\ UNCHANGED <<roundTrip, config, options, startPc, servers, crash, publicUrlCallbacks, announced, ws>>

\* ------------------------------------------------------------------------
\* proxy.on('error', (err, req, res) => ...)
\* ------------------------------------------------------------------------
\* The reworded message
errorMessage(message) ==
  IF StartsWith(message, EnotfoundPrefix)
  THEN CantFindOpen \o Substr(message, Len(EnotfoundPrefix) + 1) \o CantFindClose
  ELSE message

\* renderTemplate(error.ejs, {errorMessage, errorStack}): the page bytes
renderTemplate(message, stack) ==
  <<"<">> \o message \o <<"|">> \o stack \o <<">">>

errorPageFor(message) ==
  renderTemplate(errorMessage(message), StackTrace)

\* The handler on an HTTP response: writeHead(500, ...) then end(page).  A
\* throw of writeHead leaves the handler at once.
errorHandler(r, message, reg) ==
  LET page == errorPageFor(message)
      r0   == [r EXCEPT !.error = TRUE, !.errorPage = page]
      w    == writeHead(r0, [status |-> 500, hasHeaders |-> TRUE,
                             headers |-> [n \in {"ContentType"} |-> HtmlUtf8]], reg)
  IN IF w.threw THEN [r |-> w.r, threw |-> TRUE]
     ELSE [r |-> end(w.r, TRUE, page, reg), threw |-> FALSE]

\* The transport reports an error for the HTTP request in flight
ProxyError(message) ==
  /\ InFlight
  /\ LET e == errorHandler(res, message, replaceReg(config))
     IN /\ res' = e.r
        /\ crash' = IF e.threw THEN "handler" ELSE crash
  /\ UNCHANGED <<roundTrip, config, options, startPc, servers, publicUrlCallbacks, announced, ws>>

\* ------------------------------------------------------------------------
\* server.on('upgrade', (req, socket, head) => ...)
\* ------------------------------------------------------------------------
upgradeHost(host, reg) ==
  IF Truthy(host) THEN StringReplace(host, reg) ELSE host

upgradeOrigin(origin, reg) ==
  IF origin.kind = "list"
  THEN [origin EXCEPT !.values = [k \in 1..Len(origin.values) |-> StringReplace(origin.values[k], reg)]]
  ELSE IF origin.kind = "scalar" /\ Truthy(origin.values[1])
  THEN [origin EXCEPT !.values = <<StringReplace(origin.values[1], reg)>>]
  ELSE origin

Upgrade(i, host, origin) ==
  /\ CanAccept(i)
  /\ ws' = [phase |-> "open", server |-> i, hostIn |-> host, originIn |-> origin,
            hostOut |-> upgradeHost(host, reverseReplaceReg(config)),
            originOut |-> upgradeOrigin(origin, reverseReplaceReg(config)),
            error |-> FALSE]
  /\ res' = IdleRes
  /\ UNCHANGED <<roundTrip, config, options, startPc, servers, crash, publicUrlCallbacks, announced>>

\* The WebSocket is over without a transport error
UpgradeDone ==
  /\ crash = "no"
  /\ ws.phase = "open"
  /\ ws' = [ws EXCEPT !.phase = "done"]
  /\ UNCHANGED <<roundTrip, config, options, startPc, servers, crash, publicUrlCallbacks, announced, res>>

\* The transport reports an error for the upgrade: the handler is called
\* with the raw socket as res; a socket has no writeHead, the call throws a
\* TypeError inside the event handler.
UpgradeError ==
  /\ crash = "no"
  /\ ws.phase = "open"
  /\ ws' = [ws EXCEPT !.phase = "done", !.error = TRUE]
  /\ crash' = "handler"
  /\ UNCHANGED <<roundTrip, config, options, startPc, servers, publicUrlCallbacks, announced, res>>

\* ------------------------------------------------------------------------
\* Specifications
\* ------------------------------------------------------------------------
\* Traffic on the listeners: requests, responses, upgrades, transport errors
NextTraffic ==
  \/ \E i \in 1..Len(servers), url \in RequestUrls : HttpRequest(i, url)
  \/ \E up \in UpstreamResponses : ProxyResponse(up)
  \/ \E args \in WriteHeadArgs : CallWriteHead(args)
  \/ \E data \in Chunks : CallWrite(data)
  \/ CallEnd
  \/ \E message \in ErrorMessages : ProxyError(message)
  \/ \E i \in 1..Len(servers), host \in UpgradeHosts, origin \in UpgradeOrigins : Upgrade(i, host, origin)
  \/ UpgradeDone
  \/ UpgradeError

\* The state once startup is over: the handle is returned and every
\* listener is bound.
InitServing ==
  /\ config \in Configs
  /\ config.reverseProxy
  /\ options \in Options
  /\ startPc = "returned"
  /\ servers = [i \in 1..Len(Redirects) |->
                  [port |-> Redirects[i].port, target |-> Redirects[i].target,
                   state |-> "listening", closeIssued |-> FALSE]]
  /\ crash = "no"
  /\ publicUrlCallbacks = <<>>
  /\ announced = <<>>
  /\ res = IdleRes
  /\ ws = IdleWs
  /\ roundTrip = IdleRoundTrip

TrafficSpec ==
  InitServing /\ [][NextTraffic]_vars

\* Startup and teardown with requests arriving at the listeners
NextServe ==
  \/ NextStart
  \/ \E i \in 1..Len(servers), url \in RequestUrls : HttpRequest(i, url)

ServeSpec ==
  Init /\ [][NextServe]_vars

\* The scenario of one domain pair: localhost:3000 published as app.example,
\* no key identifier; every listener is bound.  The bodies are pieces of a
\* page that links to the target.
BodyChunks ==
  {ChunkPlain, ChunkHref, ChunkHead, ChunkTail}

RewritableResponses ==
  { up \in UpstreamResponses : Get(up.headers, "content-type") = HtmlUtf8 }

InitScenario ==
  /\ InitServing
  /\ config.hasDomains /\ config.domains = <<DomainT1>>
  /\ options.publicKeyId = NoValue

NextScenario ==
  \/ \E i \in 1..Len(servers) : HttpRequest(i, PathRoot)
  \/ \E up \in RewritableResponses : ProxyResponse(up)
  \/ CallWriteHead(NoArgs)
  \/ \E data \in BodyChunks : CallWrite(data)
  \/ CallEnd

ScenarioSpec ==
  InitScenario /\ [][NextScenario]_vars

\* The two substitutions on their own: a text goes through the forward
\* substitution of the write wrapper, the result through the reverse
\* substitution of the upgrade handler.  The domain lists include two
\* configurations of one target and two configurations of one public host.
DomainT1P2 ==
  [targetUrl |-> UrlT1, publicUrl |-> UrlP2]
DomainT2P1 ==
  [targetUrl |-> UrlT2, publicUrl |-> UrlP1]

RewriteDomainLists ==
  DomainLists \cup
    { [hasDomains |-> TRUE, domains |-> <<DomainT1, DomainT1P2>>],
      [hasDomains |-> TRUE, domains |-> <<DomainT1, DomainT2P1>>] }

Texts ==
  {ChunkPlain, ChunkHost, ChunkHostPublic, ChunkHref, ChunkHrefHost, ChunkTail,
   TextBoth, TextMixed}

InitRewrite ==
  /\ \E d \in RewriteDomainLists :
       config = [hasDomains |-> d.hasDomains, domains |-> d.domains,
                 redirects |-> Redirects, reverseProxy |-> TRUE]
  /\ options = [publicKeyId |-> NoValue]
  /\ startPc = "returned"
  /\ servers = [i \in 1..Len(Redirects) |->
                  [port |-> Redirects[i].port, target |-> Redirects[i].target,
                   state |-> "listening", closeIssued |-> FALSE]]
  /\ crash = "no"
  /\ publicUrlCallbacks = <<>>
  /\ announced = <<>>
  /\ res = IdleRes
  /\ ws = IdleWs
  /\ \E text \in Texts : roundTrip = [IdleRoundTrip EXCEPT !.step = "text", !.text = text]

\* text.replace(replaceReg, replaceFunc)
RewriteForward ==
  /\ roundTrip.step = "text"
  /\ roundTrip' = [roundTrip EXCEPT !.step = "forward",
                                    !.forward = StringReplace(roundTrip.text, replaceReg(config))]
  /\ UNCHANGED <<config, options, startPc, servers, crash, publicUrlCallbacks, announced, res, ws>>

\* value.replace(reverseReplaceReg, reverseReplaceFunc)
RewriteReverse ==
  /\ roundTrip.step = "forward"
  /\ roundTrip' = [roundTrip EXCEPT !.step = "back",
                                    !.back = StringReplace(roundTrip.forward, reverseReplaceReg(config))]
  /\ UNCHANGED <<config, options, startPc, servers, crash, publicUrlCallbacks, announced, res, ws>>

NextRewrite ==
  RewriteForward \/ RewriteReverse

RewriteSpec ==
  InitRewrite /\ [][NextRewrite]_vars

\* Startup and traffic together.  The two parts meet only in servers and
\* crash; the properties are checked under StartSpec, ServeSpec, TrafficSpec,
\* ScenarioSpec and RewriteSpec, whose state spaces TLC explores in full.
Next ==
  NextStart \/ NextTraffic

Spec ==
  Init /\ [][Next]_vars

TypeOK ==
  /\ startPc \in {"loop", "returned", "null"}
  /\ crash \in {"no", "bind", "handler", "caller"}
  /\ Len(servers) <= Len(config.redirects)
  /\ res.phase \in {"idle", "open", "ended"}
  /\ Len(res.chunksIn) <= MaxChunks

\* ------------------------------------------------------------------------
\* Vocabulary of the properties
\* ------------------------------------------------------------------------
\* A listener accepts connections while it is bound and the process lives
Accepting(i) ==
  /\ i \in 1..Len(servers)
  /\ servers[i].state = "listening"
  /\ crash = "no"

\* The body the client received: the chunks sent, concatenated
RECURSIVE Concat(_)
Concat(chunks) ==
  IF chunks = <<>> THEN <<>> ELSE Head(chunks) \o Concat(Tail(chunks))

\* The headers of a response as they were received: those set on the
\* response, and those passed to the writeHead call that sent them
Received(r) ==
  MergeHeaders(r.given, IF r.args.hasHeaders THEN r.args.headers ELSE NoHeaders)

\* No domain configuration defines a public URL
NoPublicUrl ==
  \/ ~config.hasDomains
  \/ \A k \in 1..Len(config.domains) : ~Truthy(config.domains[k].publicUrl)

\* The redirect of listener i resolves to a known public URL
ResolvesPublic(i) ==
  /\ config.hasDomains
  /\ \E k \in 1..Len(config.domains) :
       /\ config.domains[k].targetUrl = servers[i].target
       /\ \A j \in 1..(k - 1) : config.domains[j].targetUrl # servers[i].target
       /\ config.domains[k].publicUrl # NoValue

\* Number of invocations of callback cb for the listener on port
Invocations(cb, port) ==
  Cardinality({ k \in 1..Len(announced) :
                  announced[k].cb = cb /\ announced[k].proxyUrl = <<"0.0.0.0", port>> })

\* text with every occurrence of hostname h replaced by p
RECURSIVE SubstituteHost(_, _, _)
SubstituteHost(text, h, p) ==
  IF text = <<>> THEN <<>>
  ELSE IF StartsWith(text, h) THEN p \o SubstituteHost(Substr(text, Len(h)), h, p)
  ELSE <<Head(text)>> \o SubstituteHost(Tail(text), h, p)

\* text with every configured target hostname replaced by its public hostname
RECURSIVE ForwardUpTo(_, _)
ForwardUpTo(text, n) ==
  IF n = 0 THEN text
  ELSE LET d == config.domains[n]
           t == ForwardUpTo(text, n - 1)
       IN IF Truthy(d.publicUrl)
          THEN SubstituteHost(t, getDomain(d.targetUrl), getDomain(d.publicUrl))
          ELSE t

Forwarded(text) ==
  ForwardUpTo(text, Len(config.domains))

ForwardMappingNonEmpty ==
  config.hasDomains /\ ~NoPublicUrl

\* ------------------------------------------------------------------------
\* Properties
\* ------------------------------------------------------------------------

\* C1: when no domain configuration defines a public URL (domains not set,
\* empty, or with target URLs only), nothing is rewritten: the body chunks,
\* content-length, access-control-allow-origin and the Host and Origin of
\* every upgrade are forwarded as received.
C1_NoPublicUrlNoRewrite ==
  NoPublicUrl =>
    /\ (res.handedOff /\ ~res.error) => res.chunksOut = res.chunksIn
    /\ (res.handedOff /\ res.headersSent /\ ~res.error) =>
         /\ Get(res.sentHeaders, "content-length") = Get(Received(res), "content-length")
         /\ Get(res.sentHeaders, "access-control-allow-origin")
              = Get(Received(res), "access-control-allow-origin")
    /\ ws.phase # "idle" => (ws.hostOut = ws.hostIn /\ ws.originOut = ws.originIn)

\* C2: whenever the transport reported an error for an HTTP request, the
\* client received status 500 and a body that is exactly the rendered error
\* page, on every listener.
C2_ErrorPageIsBody ==
  res.error => (res.sentStatus = 500 /\ Concat(res.chunksOut) = res.errorPage)

\* C3: after a transport error (HTTP or upgrade) the error handler raised
\* nothing and every bound listener still accepts connections.
C3_ErrorsIsolated ==
  (res.error \/ ws.error) =>
    /\ crash # "handler"
    /\ \A i \in 1..Len(servers) : servers[i].state = "listening" => Accepting(i)

\* C4: once the bind of the second listener has failed, the first listener,
\* if it was bound, is still bound and accepts connections.
C4_FirstStaysBound ==
  (Len(servers) = 2 /\ servers[2].state = "failed" /\ servers[1].state = "listening")
    => Accepting(1)

\* C5: when the bind of listener i has failed, start has not returned a
\* handle and no listener was created for a redirect after i.
C5_BindFailureAborts ==
  \A i \in 1..Len(servers) :
    servers[i].state = "failed" => (startPc # "returned" /\ Len(servers) = i)

\* C6: once every listener is ready, every registered callback has been
\* invoked exactly once for each listener that resolves to a public URL
\* (announcements are only made by the listen callbacks, so none can follow).
C6_EveryCallbackInvoked ==
  (startPc = "returned" /\ \A i \in 1..Len(servers) : servers[i].state = "listening") =>
    \A k \in 1..Len(publicUrlCallbacks), i \in 1..Len(servers) :
      ResolvesPublic(i) => Invocations(publicUrlCallbacks[k], servers[i].port) = 1

\* C7: when body rewriting is enabled for a response, the headers sent hold
\* no content-length, whatever the casing of the name it was passed under.
C7_NoContentLengthWhenRewriting ==
  (res.headersSent /\ res.decisionAtSend) => "content-length" \notin DOMAIN res.sentHeaders

\* C8: with a key identifier, a request whose path starts with the challenge
\* prefix is answered 200 with exactly token.keyIdentifier and reaches neither
\* the transport nor the wrapper; every other request, and every request
\* when no key identifier is set, is handed to the transport.
C8_ChallengeAnswered ==
  res.phase # "idle" =>
    IF options.publicKeyId # NoValue /\ StartsWith(res.url, acmeChallengePath)
    THEN /\ res.phase = "ended"
         /\ res.sentStatus = 200
         /\ res.chunksOut = <<Substr(res.url, Len(acmeChallengePath)) \o <<".">> \o options.publicKeyId>>
         /\ (res.url = PathChallenge /\ options.publicKeyId = KeyId) => Concat(res.chunksOut) = ChallengeAnswer
         /\ ~res.handedOff /\ ~res.wrapped
    ELSE res.handedOff

C8_Witness ==
  /\ options.publicKeyId = KeyId
  /\ config.hasDomains
  /\ res.url = PathChallenge
  /\ res.phase = "ended"
  /\ Concat(res.chunksOut) = ChallengeAnswer

\* C9: with a non-empty forward mapping, an access-control-allow-origin
\* header of a response is sent with every target hostname replaced by its
\* public hostname whatever the body-rewrite decision is, and the body of a
\* response that is not rewritten is passed through unmodified.
C9_CorsAlwaysRewritten ==
  (ForwardMappingNonEmpty /\ res.handedOff /\ res.headersSent
     /\ Truthy(Get(Received(res), "access-control-allow-origin"))) =>
    /\ Get(res.sentHeaders, "access-control-allow-origin")
         = Forwarded(Get(Received(res), "access-control-allow-origin"))
    /\ \A k \in 1..Len(config.domains) :
         Truthy(config.domains[k].publicUrl) =>
           ~Includes(Get(res.sentHeaders, "access-control-allow-origin"),
                     getDomain(config.domains[k].targetUrl))
    /\ Get(Received(res), "access-control-allow-origin") = CorsT1
         => Get(res.sentHeaders, "access-control-allow-origin") = CorsP1
    /\ (~res.decisionAtSend /\ ~res.error) => res.chunksOut = res.chunksIn

C9_Witness ==
  /\ ForwardMappingNonEmpty
  /\ res.headersSent
  /\ ~res.decisionAtSend
  /\ Get(res.given, "content-type") = OctetStream
  /\ Get(res.given, "access-control-allow-origin") = CorsT1
  /\ Get(res.sentHeaders, "access-control-allow-origin") = CorsP1
  /\ res.chunksIn = <<ChunkHost>>
  /\ res.chunksOut = <<ChunkHost>>

\* The content type a response declares: the header set on the response,
\* else the one in the headers argument of writeHead
Declared(r) ==
  IF Truthy(Get(r.given, "content-type")) THEN Get(r.given, "content-type")
  ELSE IF r.args.hasHeaders THEN Get(r.args.headers, "content-type")
  ELSE NoValue

\* C10: the decision taken when the headers are sent is true exactly when the
\* declared content type contains text/html, text/css or
\* application/javascript; without the decision the chunks pass unmodified.
C10_DecisionFromContentType ==
  (res.wrapped /\ res.headersSent) =>
    /\ res.decisionAtSend <=>
         /\ Declared(res) # NoValue
         /\ \/ Includes(Declared(res), TextHtml)
            \/ Includes(Declared(res), TextCss)
            \/ Includes(Declared(res), AppJavascript)
    /\ (~res.decisionAtSend /\ ~res.error) => res.chunksOut = res.chunksIn

C10_Witness ==
  /\ ForwardMappingNonEmpty
  /\ res.wrapped /\ res.headersSent
  /\ res.decisionAtSend
  /\ Get(res.given, "content-type") = NoValue
  /\ Declared(res) = TextCss
  /\ res.chunksIn # <<>>

\* C11: in the scenario of one domain pair, a text/html body chunk that holds
\* href="http://localhost:3000/x" is sent as href="https://app.example/x".
C11_HrefRewritten ==
  (res.wrapped /\ res.headersSent /\ Includes(Declared(res), TextHtml)) =>
    \A k \in 1..Len(res.chunksIn) :
      res.chunksIn[k] = ChunkHref => res.chunksOut[k] = ChunkHrefPublic

\* text with every configured public hostname replaced by its target hostname
RECURSIVE ReverseUpTo(_, _)
ReverseUpTo(text, n) ==
  IF n = 0 THEN text
  ELSE LET d == config.domains[n]
           t == ReverseUpTo(text, n - 1)
       IN IF Truthy(d.publicUrl)
          THEN SubstituteHost(t, getDomain(d.publicUrl), getDomain(d.targetUrl))
          ELSE t

Reversed(text) ==
  ReverseUpTo(text, Len(config.domains))

\* C12: an upgrade is handed to the transport with every known public
\* hostname of its Host and of its Origin value(s) replaced by the target
\* hostname, and nothing else changed (Origin http://app.example becomes
\* http://localhost:3000).
C12_UpgradeHeadersReversed ==
  ws.phase # "idle" =>
    /\ ws.hostOut = Reversed(ws.hostIn)
    /\ ws.originOut.kind = ws.originIn.kind
    /\ Len(ws.originOut.values) = Len(ws.originIn.values)
    /\ \A k \in 1..Len(ws.originIn.values) :
         ws.originOut.values[k] = Reversed(ws.originIn.values[k])
    /\ (config.domains = <<DomainT1>> /\ ws.originIn.kind = "scalar")
         => ws.originOut.values = <<CorsT1>>

\* C13: when reverse proxying is disabled, start creates no listener and
\* returns a handle whose onPublicUrl and destroy can be called, do nothing
\* and raise nothing.
C13_InertHandle ==
  ~config.reverseProxy =>
    /\ servers = <<>>
    /\ announced = <<>>
    /\ startPc # "loop" => startPc = "returned"
    /\ crash = "no"

\* destroy was called on the handle
Destroyed ==
  /\ startPc = "returned"
  /\ \A i \in 1..Len(servers) : servers[i].closeIssued

\* C14: after destroy, close was issued on one listener per redirect, and
\* once no bind is pending any more no created listener accepts connections.
C14_DestroyClosesAll ==
  Destroyed =>
    /\ Len(servers) = Len(config.redirects)
    /\ (\A i \in 1..Len(servers) : servers[i].state # "binding")
         => \A i \in 1..Len(servers) : ~Accepting(i)

\* The decision variable still holds what it held when the headers went out
DecisionKept ==
  (res.wrapped /\ res.headersSent) => res.shouldRewrite = res.decisionAtSend

\* Every chunk on the wire was treated under the decision of the header send
ChunksUnderDecision ==
  (res.wrapped /\ res.headersSent) =>
    \A k \in 1..Len(res.chunksIn) :
      res.chunksOut[k] = IF res.decisionAtSend
                         THEN StringReplace(res.chunksIn[k], replaceReg(config))
                         ELSE res.chunksIn[k]

\* C15: the rewrite decision of a response is fixed when its headers are
\* sent and does not change afterwards, a later writeHead included; all
\* body chunks that follow the headers are treated under that one decision.
C15_DecisionFixedOnce ==
  DecisionKept /\ ChunksUnderDecision

\* C16: startup is sequential: the listener of redirect i+1 is created only
\* when the listener of redirect i has completed its bind, and the handle is
\* returned only when every listener has completed its bind.
C16_SequentialStartup ==
  /\ \A i \in 1..Len(servers) : i < Len(servers) => servers[i].state # "binding"
  /\ startPc = "returned" => \A i \in 1..Len(servers) : servers[i].state # "binding"

\* The invocations made for the listener on port, in the order they were made
RECURSIVE AnnouncedOn(_, _)
AnnouncedOn(seq, port) ==
  IF seq = <<>> THEN <<>>
  ELSE (IF Head(seq).proxyUrl = <<"0.0.0.0", port>> THEN <<Head(seq)>> ELSE <<>>)
       \o AnnouncedOn(Tail(seq), port)

\* The public URL of the first domain configuration whose target is the
\* target of listener i
PublicUrlOf(i) ==
  LET k == CHOOSE k \in 1..Len(config.domains) :
             /\ config.domains[k].targetUrl = servers[i].target
             /\ \A j \in 1..(k - 1) : config.domains[j].targetUrl # servers[i].target
  IN config.domains[k].publicUrl

\* C17: the invocations made for a listener are one per registration at
\* most, in registration order, each with the listener's local address and
\* the public URL of the domain configuration of the redirect's target; a
\* listener whose redirect resolves to no public URL causes no invocation,
\* and its requests are still handed to the transport.
C17_AnnouncementsSafe ==
  \A i \in 1..Len(servers) :
    LET mine == AnnouncedOn(announced, servers[i].port)
    IN /\ servers[i].state = "binding" => mine = <<>>
       /\ IF ResolvesPublic(i)
          THEN \E n \in 0..Len(publicUrlCallbacks) :
                 mine = [k \in 1..n |-> [cb |-> publicUrlCallbacks[k],
                                          proxyUrl |-> <<"0.0.0.0", servers[i].port>>,
                                          publicUrl |-> PublicUrlOf(i)]]
          ELSE mine = <<>>
       /\ (/\ ~ResolvesPublic(i)
           /\ res.phase # "idle"
           /\ res.server = i
           /\ ~(options.publicKeyId # NoValue /\ StartsWith(res.url, acmeChallengePath)))
          => res.handedOff

\* Two registrations were announced for one listener, and a listener whose
\* redirect resolves to no public URL is serving a request
C17_Witness ==
  \E i, j \in 1..Len(servers) :
    /\ ResolvesPublic(i)
    /\ Len(AnnouncedOn(announced, servers[i].port)) = 2
    /\ ~ResolvesPublic(j)
    /\ servers[j].state = "listening"
    /\ AnnouncedOn(announced, servers[j].port) = <<>>
    /\ res.server = j
    /\ res.handedOff

\* The domain configurations that have a public URL
Pairs ==
  { k \in 1..Len(config.domains) : Truthy(config.domains[k].publicUrl) }

TargetHost(k) ==
  getDomain(config.domains[k].targetUrl)

PublicHost(k) ==
  getDomain(config.domains[k].publicUrl)

\* Configuration k is the last one of its target hostname and the last one of
\* its public hostname: both tables hold its pair
Effective(k) ==
  /\ k \in Pairs
  /\ \A j \in Pairs : (TargetHost(j) = TargetHost(k) \/ PublicHost(j) = PublicHost(k)) => j <= k

\* Every target hostname that occurs in text belongs to a pair both tables hold
TargetsEffective(text) ==
  \A k \in Pairs : Includes(text, TargetHost(k)) =>
    \E e \in Pairs : Effective(e) /\ TargetHost(e) = TargetHost(k)

\* Number of positions of text at which a public hostname starts
PublicOccurrences(text) ==
  Cardinality({ i \in 1..Len(text) : \E k \in Pairs : MatchAt(text, i, PublicHost(k)) })

\* Number of target hostnames a scan from the left finds in text, each
\* resumed after the hostname found
RECURSIVE TargetMatches(_)
TargetMatches(text) ==
  IF text = <<>> THEN 0
  ELSE IF \E k \in Pairs : StartsWith(text, TargetHost(k))
  THEN LET k == CHOOSE k \in Pairs :
                  /\ StartsWith(text, TargetHost(k))
                  /\ \A j \in Pairs : StartsWith(text, TargetHost(j)) => k <= j
       IN 1 + TargetMatches(Substr(text, Len(TargetHost(k))))
  ELSE TargetMatches(Tail(text))

C19_MutualInverses ==
  config.hasDomains =>
    LET forward == replaceMap(config.domains)
        reverse == reverseReplaceMap(config.domains)
    IN /\ \A h \in DOMAIN forward : Get(reverse, forward[h]) = h
       /\ \A p \in DOMAIN reverse : Get(forward, reverse[p]) = p
       /\ \A k \in Pairs : /\ Get(forward, TargetHost(k)) = PublicHost(k)
                            /\ Get(reverse, PublicHost(k)) = TargetHost(k)

\* C20: for a rewritten response, the chunks sent to the client, put
\* together, are the forward substitution of the chunks received from the
\* target, put together, however the body was split into chunks.
C20_StreamingEqualsWhole ==
  (res.wrapped /\ res.headersSent /\ res.decisionAtSend /\ ~res.error) =>
    Concat(res.chunksOut) = Forwarded(Concat(res.chunksIn))

====
